---- MODULE Spec2Model ----
(***************************************************************************)
(* Model of src/app.py (Pokemon sold price finder): the eBay sold-listing  *)
(* lookup ebay_find_completed_items, the summary summarize_prices and the  *)
(* grid loop that calls both for every card, and the search flow that      *)
(* fills the grid from the primary or the fallback card provider.          *)
(*                                                                         *)
(* Spec is the grid loop and the details of a run whose search the primary *)
(* provider answered, with eBay responses of up to MaxItems items.         *)
(* SearchSpec is the whole run from the submitted form, with eBay          *)
(* responses of at most one item.                                          *)
(*                                                                         *)
(* Conventions.                                                            *)
(*  - An optional value (a dict key that may be absent, Python's None) is  *)
(*    a sequence of length 0 (absent / None) or 1 (the value).             *)
(*  - A raw string that the code hands to float() is a sequence of         *)
(*    characters, so that parsing is computed and can fail.                *)
(*  - Prices are whole numbers; the mean is the exact rational             *)
(*    [num, den] = sum / count (float rounding is not modelled).           *)
(*  - The presentation columns of a row that no statistic reads (the "df"  *)
(*    entry of the summary) are left out.                                  *)
(***************************************************************************)
EXTENDS Integers, Sequences, FiniteSets

VARIABLES EBAY_APP_ID, do_ebay, include_shipping, pc, response,
          ebay, ebay_summary, ebay_error, badge_text, panel, raised,
          primary, fallback, provider_used, normalized_cards, queried

\* the search flow's state: the two providers' results, the provider shown in
\* the caption, the cards of the grid, and the providers called so far
searchVars == <<primary, fallback, provider_used, normalized_cards, queried>>

vars == <<EBAY_APP_ID, do_ebay, include_shipping, pc, response,
          ebay, ebay_summary, ebay_error, badge_text, panel, raised,
          primary, fallback, provider_used, normalized_cards, queried>>

\* ------------------------------------------------------------------ bounds
MaxItems == 3
MaxCards == 2

\* ------------------------------------------------------------- option type
None == <<>>
Some(x) == <<x>>
IsSome(o) == Len(o) = 1
Get(o, default) == IF IsSome(o) THEN o[1] ELSE default

\* ----------------------------------------------------- float(raw or 0.0)
Digits == {"0", "1", "2", "3", "5"}

DigitVal(c) ==
  CASE c = "0" -> 0 [] c = "1" -> 1 [] c = "2" -> 2 [] c = "3" -> 3 [] c = "5" -> 5

\* the digits of s after an optional leading minus sign
Unsigned(s) == IF s # <<>> /\ Head(s) = "-" THEN Tail(s) ELSE s

\* float(s) succeeds: an optional sign and at least one digit
FloatParses(s) ==
  /\ Unsigned(s) # <<>>
  /\ \A i \in 1..Len(Unsigned(s)) : Unsigned(s)[i] \in Digits

RECURSIVE DigitsVal(_)
DigitsVal(s) ==
  IF s = <<>> THEN 0
  ELSE 10 * DigitsVal(SubSeq(s, 1, Len(s) - 1)) + DigitVal(s[Len(s)])

FloatOf(s) ==
  IF s # <<>> /\ Head(s) = "-" THEN 0 - DigitsVal(Unsigned(s)) ELSE DigitsVal(s)

\* mutant: the sign of the amount is lost
ToFloat_Unsigned(obj) ==
  LET raw == IF IsSome(obj.value) THEN obj.value ELSE obj.text
  IN  IF ~IsSome(raw) THEN 0
      ELSE IF raw[1] = <<>> THEN 0
      ELSE IF FloatParses(raw[1]) THEN DigitsVal(Unsigned(raw[1]))
      ELSE 0

\* obj.get("__value__", obj.get("#text", 0.0)) followed by
\* try: float(raw or 0.0) except Exception: 0.0
\* obj is [value, text]: the two optional keys "__value__" and "#text"
ToFloat(obj) ==
  LET raw == IF IsSome(obj.value) THEN obj.value ELSE obj.text
  IN  IF ~IsSome(raw) THEN 0                     \* default 0.0
      ELSE IF raw[1] = <<>> THEN 0               \* "" or 0.0
      ELSE IF FloatParses(raw[1]) THEN FloatOf(raw[1])
      ELSE 0                                     \* except: 0.0

\* price_obj.get("@currencyId", price_obj.get("currencyId", "GBP"))
CurrencyOf(price_obj) ==
  IF IsSome(price_obj.curAt) THEN price_obj.curAt[1]
  ELSE IF IsSome(price_obj.cur) THEN price_obj.cur[1]
  ELSE "GBP"

\* shippingServiceCost: used only when it is a non-empty list
ShipCost(it) ==
  IF IsSome(it.shippingServiceCost) THEN ToFloat(it.shippingServiceCost[1]) ELSE 0

\* mutant: shipping is added whatever include_shipping says
NormalizeItem_AlwaysShipping(it, incl) ==
  LET price == ToFloat(it.currentPrice)
      ship_cost == ShipCost(it)
  IN  [ title       |-> Get(it.title, ""),
        end_time    |-> Get(it.endTime, ""),
        price       |-> price,
        shipping    |-> ship_cost,
        total_price |-> price + ship_cost,
        currency    |-> CurrencyOf(it.currentPrice),
        url         |-> Get(it.viewItemURL, "") ]

\* one pass of the normalization loop: the dict appended for item it
NormalizeItem(it, incl) ==
  LET price == ToFloat(it.currentPrice)
      ship_cost == ShipCost(it)
  IN  [ title       |-> Get(it.title, ""),
        end_time    |-> Get(it.endTime, ""),
        price       |-> price,
        shipping    |-> ship_cost,
        total_price |-> IF incl THEN price + ship_cost ELSE price,
        currency    |-> CurrencyOf(it.currentPrice),
        url         |-> Get(it.viewItemURL, "") ]

\* mutant: an item whose price does not parse is skipped
Normalize_SkipBadPrice(items, incl) ==
  LET Parses(it) ==
        LET raw == IF IsSome(it.currentPrice.value) THEN it.currentPrice.value
                   ELSE it.currentPrice.text
        IN  IsSome(raw) /\ FloatParses(raw[1])
      kept == SelectSeq(items, Parses)
  IN  [i \in 1..Len(kept) |-> NormalizeItem(kept[i], incl)]

\* normalized = [] ; for it in items: normalized.append({...})
Normalize(items, incl) == [i \in 1..Len(items) |-> NormalizeItem(items[i], incl)]

\* ------------------------------------------- pd.Series(...).mode().iloc[0]
\* the currency codes of the model in the order sorting puts them
CurrencyOrder == <<"EUR", "GBP", "USD">>

Count(seq, c) == Cardinality({i \in 1..Len(seq) : seq[i] = c})

\* Series.mode(): every value with the greatest number of occurrences
Modes(seq) ==
  {seq[i] : i \in {j \in 1..Len(seq) : \A k \in 1..Len(seq) : Count(seq, seq[k]) <= Count(seq, seq[j])}}

\* mutant: the modes are left in order of first appearance
ModeFirst_Unsorted(seq) ==
  seq[CHOOSE i \in 1..Len(seq) :
        /\ seq[i] \in Modes(seq)
        /\ \A j \in 1..Len(seq) : seq[j] \in Modes(seq) => i <= j]

\* mode() returns its values sorted; .iloc[0] takes the first of them
ModeFirst(seq) ==
  LET ranks == {i \in 1..Len(CurrencyOrder) : CurrencyOrder[i] \in Modes(seq)}
  IN  CurrencyOrder[CHOOSE i \in ranks : \A j \in ranks : i <= j]

\* mutant: a row of the currency is kept twice
KeepCurrency_Twice(normalized, cur) ==
  LET Keep(x) == x.currency = cur
  IN  SelectSeq(normalized, Keep) \o SelectSeq(normalized, Keep)

\* mutant: the kept rows come out last first
KeepCurrency_Reversed(normalized, cur) ==
  LET Keep(x) == x.currency = cur
      kept == SelectSeq(normalized, Keep)
  IN  [i \in 1..Len(kept) |-> kept[Len(kept) + 1 - i]]

\* [x for x in normalized if x["currency"] == cur]
KeepCurrency(normalized, cur) ==
  LET Keep(x) == x.currency = cur IN SelectSeq(normalized, Keep)

\* mutant: the rows are returned without the currency filter
DominantOnly_Unfiltered(normalized) == normalized

\* lines 354-356: the rows of the dominant currency, or [] when there are none
DominantOnly(normalized) ==
  IF normalized # <<>>
  THEN KeepCurrency(normalized, ModeFirst([i \in 1..Len(normalized) |-> normalized[i].currency]))
  ELSE normalized

\* ------------------------------------------------ ebay_find_completed_items
Result(ok, error, items) == [ok |-> ok, error |-> error, items |-> items]

\* mutant: a response whose ack is not "Success" still returns its rows
ebay_find_completed_items_Partial(app_id, resp, incl) ==
  IF ~app_id
  THEN Result(FALSE, Some("Missing EBAY_APP_ID in Streamlit secrets."), <<>>)
  ELSE IF resp.exc
  THEN Result(FALSE, Some("Error calling eBay Finding API"), <<>>)
  ELSE IF ~IsSome(resp.resp)
  THEN Result(FALSE, Some("Unexpected eBay response"), <<>>)
  ELSE IF Get(resp.resp[1].ack, "") # "Success"
  THEN Result(FALSE, Some("eBay ack"), DominantOnly(Normalize(resp.resp[1].item, incl)))
  ELSE Result(TRUE, None, DominantOnly(Normalize(resp.resp[1].item, incl)))

\* app_id: EBAY_APP_ID is truthy.  resp: what the HTTP call produced:
\*   exc   requests.get or r.json() raised
\*   resp  payload["findCompletedItemsResponse"], absent or its first entry
\*         [ack, item]: the optional ack string and searchResult[0]["item"]
ebay_find_completed_items(app_id, resp, incl) ==
  IF ~app_id
  THEN Result(FALSE, Some("Missing EBAY_APP_ID in Streamlit secrets."), <<>>)
  ELSE IF resp.exc
  THEN Result(FALSE, Some("Error calling eBay Finding API"), <<>>)
  ELSE IF ~IsSome(resp.resp)
  THEN Result(FALSE, Some("Unexpected eBay response"), <<>>)
  ELSE IF Get(resp.resp[1].ack, "") # "Success"
  THEN Result(FALSE, Some("eBay ack"), <<>>)
  ELSE Result(TRUE, None, DominantOnly(Normalize(resp.resp[1].item, incl)))

\* --------------------------------------------------------- summarize_prices
RECURSIVE SumTotal(_)
SumTotal(items) ==
  IF items = <<>> THEN 0 ELSE items[1].total_price + SumTotal(Tail(items))

MaxTotal(items) ==
  LET S == {items[i].total_price : i \in 1..Len(items)}
  IN  CHOOSE m \in S : \A x \in S : x <= m

MinTotal(items) ==
  LET S == {items[i].total_price : i \in 1..Len(items)}
  IN  CHOOSE m \in S : \A x \in S : m <= x

\* mutant: the statistics read the price column, not total_price
summarize_prices_OnPrice(items) ==
  IF items = <<>> THEN None
  ELSE LET priced == [i \in 1..Len(items) |-> [items[i] EXCEPT !.total_price = items[i].price]]
       IN  Some([ currency |-> items[1].currency,
                  count    |-> Len(items),
                  high     |-> MaxTotal(priced),
                  low      |-> MinTotal(priced),
                  avg      |-> [num |-> SumTotal(priced), den |-> Len(items)] ])

summarize_prices(items) ==
  IF items = <<>> THEN None
  ELSE Some([ currency |-> items[1].currency,
              count    |-> Len(items),
              high     |-> MaxTotal(items),
              low      |-> MinTotal(items),
              avg      |-> [num |-> SumTotal(items), den |-> Len(items)] ])

\* ------------------------------------------------------------ the grid loop
Badge(text, cur, high) == [text |-> text, currency |-> cur, high |-> high]

\* ebay_summary[...]: the summary's entries; raises TypeError on None
Subscript(summary) ==
  [ raises |-> ~IsSome(summary),
    value  |-> Get(summary, [currency |-> "", high |-> 0]) ]

\* mutant: the f-string is evaluated before ebay_summary is tested
SummaryBadge_Unguarded(summary) ==
  LET e == Subscript(summary)
  IN  IF IsSome(summary)
      THEN [badge |-> Badge("price", e.value.currency, e.value.high), raises |-> e.raises]
      ELSE [badge |-> Badge("No sold data", "", 0), raises |-> e.raises]

\* line 480: f"{ebay_summary['currency']} {ebay_summary['high']:.2f}"
\*           if ebay_summary else "No sold data"
\* the subscripts are evaluated in the first branch only
SummaryBadge(summary) ==
  IF IsSome(summary)
  THEN LET e == Subscript(summary)
       IN  [badge |-> Badge("price", e.value.currency, e.value.high), raises |-> e.raises]
  ELSE [badge |-> Badge("No sold data", "", 0), raises |-> FALSE]

\* lines 507-554: which branch of the details column is rendered
DetailsPanel(ebay_on, summary, error) ==
  IF ebay_on /\ IsSome(summary) THEN "metrics"
  ELSE IF ebay_on /\ IsSome(error) /\ error[1] # "" THEN "error"
  ELSE "info"

\* ------------------------------------------------------------------ inputs
Amount(value, text) == [value |-> value, text |-> text]

PriceObj(value, text, curAt, cur) ==
  [value |-> value, text |-> text, curAt |-> curAt, cur |-> cur]

RawItem(price_obj, ship, endTime) ==
  [ title |-> Some("card"), viewItemURL |-> Some("https://ebay/itm"),
    endTime |-> endTime, currentPrice |-> price_obj, shippingServiceCost |-> ship ]

GoodEndTime == "2024-05-01T10:00:00.000Z"
BadEndTime == "yesterday"

RawValues == {None, Some(<<"a">>), Some(<<"-", "5">>), Some(<<"1", "0">>)}

\* the raw items a response may carry: every raw price under two currency
\* settings, and the other keys varied one at a time on a well-formed item
RawItems ==
       {RawItem(PriceObj(v, None, c, None), None, Some(GoodEndTime)) :
          v \in RawValues, c \in {None, Some("USD")}}
  \cup {RawItem(PriceObj(Some(<<"1", "0">>), None, Some("EUR"), None), None, Some(GoodEndTime)),
        RawItem(PriceObj(None, Some(<<"2", "0">>), None, Some("USD")), None, Some(GoodEndTime)),
        RawItem(PriceObj(Some(<<"3", "0">>), None, Some("USD"), None), None, Some(GoodEndTime)),
        RawItem(PriceObj(Some(<<>>), None, None, None), None, Some(GoodEndTime)),
        RawItem(PriceObj(Some(<<"1", "0">>), None, None, None),
                Some(Amount(Some(<<"3">>), None)), Some(GoodEndTime)),
        RawItem(PriceObj(Some(<<"1", "0">>), None, None, None),
                Some(Amount(Some(<<"-", "3">>), None)), Some(GoodEndTime)),
        RawItem(PriceObj(Some(<<"1", "0">>), None, None, None),
                Some(Amount(Some(<<"a">>), None)), Some(GoodEndTime)),
        RawItem(PriceObj(Some(<<"1", "0">>), None, None, None), None, Some(BadEndTime)),
        RawItem(PriceObj(Some(<<"1", "0">>), None, None, None), None, None)}

ItemLists(n) == UNION {[1..k -> RawItems] : k \in 0..n}

Responses ==
       {[exc |-> TRUE, resp |-> None], [exc |-> FALSE, resp |-> None]}
  \cup {[exc |-> FALSE, resp |-> Some([ack |-> a, item |-> its])] :
          a \in {None, Some("Failure")}, its \in ItemLists(1)}
  \cup {[exc |-> FALSE, resp |-> Some([ack |-> Some("Success"), item |-> its])] :
          its \in ItemLists(MaxItems)}

NoResponse == [exc |-> FALSE, resp |-> None]
NoBadge == Badge("-", "", 0)

\* ----------------------------------------------------------- the search flow
\* normalize_from_pokemontcg / normalize_from_tcgdex: the card of the grid
\* (the primary provider's name is written without its accent)
normalize_from_pokemontcg(card) == [source |-> "pokemontcg", id |-> card.id]
normalize_from_tcgdex(card) == [source |-> "tcgdex", id |-> card.id]

\* line 417: the primary's data is used; otherwise the fallback is asked
PrimaryUsable(res) == res.ok

\* line 424: fallback["ok"] and fallback["data"]
FallbackUsable(res) == res.ok /\ res.data # <<>>

\* mutant: the grid is rendered whatever the number of cards
NoCards_Never(cards) == FALSE

\* line 445: not normalized_cards
NoCards(cards) == cards = <<>>

\* lines 426-431: the briefs whose full card tcgdex_get_card returned
\* (fetched[i] is "card", or "none" for an HTTP error)
FullCards(data, fetched) ==
  LET idxs == [i \in 1..Len(data) |-> i]
      Got(i) == fetched[i] = "card"
      kept == SelectSeq(idxs, Got)
  IN  [k \in 1..Len(kept) |-> data[kept[k]]]

\* the cards a provider's list may hold
ProviderCards == {[id |-> "base1-4"], [id |-> "swsh3-136"]}
CardLists == UNION {[1..k -> ProviderCards] : k \in 0..MaxCards}

\* what pokemontcg_search_cards does: raises (r.json() fails), or returns
\* ok=False with no data, or ok=True with the payload's data
PrimaryOutcomes ==
       {[raises |-> TRUE, ok |-> FALSE, data |-> <<>>],
        [raises |-> FALSE, ok |-> FALSE, data |-> <<>>]}
  \cup {[raises |-> FALSE, ok |-> TRUE, data |-> d] : d \in CardLists}

\* what tcgdex_search_cards does, and what tcgdex_get_card does for each brief
\* of its data: "card", "none" (HTTP error) or "raises" (the request failed)
FallbackOutcomes ==
       {[raises |-> TRUE, ok |-> FALSE, data |-> <<>>, fetched |-> <<>>],
        [raises |-> FALSE, ok |-> FALSE, data |-> <<>>, fetched |-> <<>>]}
  \cup {[raises |-> FALSE, ok |-> TRUE, data |-> d, fetched |-> f] :
          d \in CardLists, f \in UNION {[1..k -> {"card", "none", "raises"}] : k \in 0..MaxCards}}

ProviderResult(o) == [ok |-> o.ok, data |-> o.data]

\* the eBay responses of the search specification: at most one item each
BriefResponses ==
       {[exc |-> TRUE, resp |-> None], [exc |-> FALSE, resp |-> None]}
  \cup {[exc |-> FALSE, resp |-> Some([ack |-> a, item |-> its])] :
          a \in {None, Some("Failure"), Some("Success")}, its \in ItemLists(1)}

\* ----------------------------------------------------------------- actions
\* the secrets and the sidebar toggles of one script run whose search the
\* primary provider answered with one card; the loop is at the top of its body
\* for the first card (lines 465-468)
Init ==
  /\ EBAY_APP_ID \in BOOLEAN
  /\ do_ebay \in BOOLEAN
  /\ include_shipping \in BOOLEAN
  /\ pc = "loop"
  /\ response = NoResponse
  /\ ebay = None
  /\ ebay_summary = None
  /\ ebay_error = None
  /\ badge_text = NoBadge
  /\ panel = ""
  /\ raised = FALSE
  /\ primary = Some([ok |-> TRUE, data |-> <<[id |-> "base1-4"]>>])
  /\ fallback = None
  /\ provider_used = Some("PokemonTCG")
  /\ normalized_cards = <<normalize_from_pokemontcg([id |-> "base1-4"])>>
  /\ queried = <<"PokemonTCG">>

\* lines 470-483, do_ebay on: the lookup, the summary and the badge of a card;
\* the HTTP call is made only when the app id is set
GridEbayOn(responses) ==
  /\ pc = "loop"
  /\ do_ebay
  /\ \E resp \in IF EBAY_APP_ID THEN responses ELSE {NoResponse} :
       LET r == ebay_find_completed_items(EBAY_APP_ID, resp, include_shipping)
           s == summarize_prices(r.items)
       IN  /\ response' = resp
           /\ ebay' = Some(r)
           /\ IF r.ok
              THEN /\ ebay_summary' = s
                   /\ badge_text' = SummaryBadge(s).badge
                   /\ raised' = SummaryBadge(s).raises
                   /\ ebay_error' = None
              ELSE /\ ebay_summary' = None
                   /\ ebay_error' = r.error
                   /\ badge_text' = Badge("Sold blocked", "", 0)
                   /\ raised' = FALSE
  /\ pc' = "tile"
  /\ UNCHANGED <<EBAY_APP_ID, do_ebay, include_shipping, panel>>
  /\ UNCHANGED searchVars

GridEbay == GridEbayOn(Responses)

GridEbayBrief == GridEbayOn(BriefResponses)

\* lines 484-485, do_ebay off: no lookup
GridNoEbay ==
  /\ pc = "loop"
  /\ ~do_ebay
  /\ badge_text' = NoBadge
  /\ pc' = "tile"
  /\ UNCHANGED <<EBAY_APP_ID, do_ebay, include_shipping, response, ebay,
                 ebay_summary, ebay_error, panel, raised>>
  /\ UNCHANGED searchVars

\* lines 458-468: the loop moves on to the next card and resets its locals
\* (the position in normalized_cards is not tracked: any number of further
\* cards may follow)
NextCard ==
  /\ pc = "tile"
  /\ pc' = "loop"
  /\ response' = NoResponse
  /\ ebay' = None
  /\ ebay_summary' = None
  /\ ebay_error' = None
  /\ badge_text' = NoBadge
  /\ UNCHANGED <<EBAY_APP_ID, do_ebay, include_shipping, panel, raised>>
  /\ UNCHANGED searchVars

\* lines 497-554: the details of the selected card, read back from card_map
\* (the lookup repeated at line 525 is served from st.cache_data: same result)
Details ==
  /\ pc = "tile"
  /\ pc' = "details"
  /\ panel' = DetailsPanel(do_ebay, ebay_summary, ebay_error)
  /\ UNCHANGED <<EBAY_APP_ID, do_ebay, include_shipping, response, ebay,
                 ebay_summary, ebay_error, badge_text, raised>>
  /\ UNCHANGED searchVars

Next ==
  \/ GridEbay
  \/ GridNoEbay
  \/ NextCard
  \/ Details

Spec == Init /\ [][Next]_vars

\* --------------------------------------------------- the whole script run
gridVars == <<response, ebay, ebay_summary, ebay_error, badge_text, panel, raised>>

\* the form was submitted with a query: before line 412
InitSearch ==
  /\ EBAY_APP_ID \in BOOLEAN
  /\ do_ebay \in BOOLEAN
  /\ include_shipping \in BOOLEAN
  /\ pc = "search"
  /\ response = NoResponse
  /\ ebay = None
  /\ ebay_summary = None
  /\ ebay_error = None
  /\ badge_text = NoBadge
  /\ panel = ""
  /\ raised = FALSE
  /\ primary = None
  /\ fallback = None
  /\ provider_used = None
  /\ normalized_cards = <<>>
  /\ queried = <<>>

\* lines 410-419 and, when the primary answers, 445-449: the primary search
SearchPrimary ==
  /\ pc = "search"
  /\ queried' = Append(queried, "PokemonTCG")
  /\ \E o \in PrimaryOutcomes :
       IF o.raises
       THEN /\ pc' = "crashed"
            /\ UNCHANGED <<primary, provider_used, normalized_cards>>
       ELSE /\ primary' = Some(ProviderResult(o))
            /\ IF PrimaryUsable(o)
               THEN LET cards == [i \in 1..Len(o.data) |-> normalize_from_pokemontcg(o.data[i])]
                    IN  /\ provider_used' = Some("PokemonTCG")
                        /\ normalized_cards' = cards
                        /\ pc' = IF NoCards(cards) THEN "stopped" ELSE "loop"
               ELSE /\ pc' = "fallback"
                    /\ UNCHANGED <<provider_used, normalized_cards>>
  /\ UNCHANGED <<EBAY_APP_ID, do_ebay, include_shipping, fallback>>
  /\ UNCHANGED gridVars

\* lines 420-449: the primary failed; the fallback search and its full cards
SearchFallback ==
  /\ pc = "fallback"
  /\ queried' = Append(queried, "TCGdex")
  /\ \E o \in FallbackOutcomes :
       /\ Len(o.fetched) = Len(o.data)
       /\ IF o.raises
          THEN /\ pc' = "crashed"
               /\ UNCHANGED <<fallback, provider_used, normalized_cards>>
          ELSE /\ fallback' = Some(ProviderResult(o))
               /\ IF FallbackUsable(o)
                  THEN /\ provider_used' = Some("TCGdex")
                       /\ IF \E i \in 1..Len(o.fetched) : o.fetched[i] = "raises"
                          THEN /\ pc' = "crashed"
                               /\ UNCHANGED normalized_cards
                          ELSE LET full_cards == FullCards(o.data, o.fetched)
                                   cards == [i \in 1..Len(full_cards) |->
                                               normalize_from_tcgdex(full_cards[i])]
                               IN  /\ normalized_cards' = cards
                                   /\ pc' = IF NoCards(cards) THEN "stopped" ELSE "loop"
                  ELSE /\ pc' = "stopped"
                       /\ UNCHANGED <<provider_used, normalized_cards>>
  /\ UNCHANGED <<EBAY_APP_ID, do_ebay, include_shipping, primary>>
  /\ UNCHANGED gridVars

NextSearch ==
  \/ SearchPrimary
  \/ SearchFallback
  \/ GridEbayBrief
  \/ GridNoEbay
  \/ NextCard
  \/ Details

SearchSpec == InitSearch /\ [][NextSearch]_vars

\* ========================================================== properties
\* A lookup that returned ok=True is held: its raw items and its rows.
Succeeded == pc # "loop" /\ IsSome(ebay) /\ ebay[1].ok
In == response.resp[1].item
Out == ebay[1].items

\* the currency each raw item carries, in input order
InCurrencies == [i \in 1..Len(In) |-> CurrencyOf(In[i].currentPrice)]

\* c occurs at least as often in the input as every other currency
MostPoints(c) == \A k \in 1..Len(In) : Count(InCurrencies, InCurrencies[k]) <= Count(InCurrencies, c)

\* two or more currencies share the greatest number of points
Tie == \E i, j \in 1..Len(In) :
         /\ InCurrencies[i] # InCurrencies[j]
         /\ MostPoints(InCurrencies[i])
         /\ MostPoints(InCurrencies[j])

RankOf(c) == CHOOSE i \in 1..Len(CurrencyOrder) : CurrencyOrder[i] = c

\* the input positions whose currency is c, and the k-th of them
Positions(c) == {i \in 1..Len(In) : InCurrencies[i] = c}
KthPosition(c, k) == CHOOSE i \in Positions(c) : Cardinality({j \in Positions(c) : j <= i}) = k

\* the row the loop makes of the raw item at position i
RowOf(i) == NormalizeItem(In[i], include_shipping)

\* C1 as stated: for a non-empty input the currency of the returned rows has
\* the greatest number of points, and among currencies that tie for the
\* greatest number it is the one met first in input order.
C1_FirstEncountered ==
  (Succeeded /\ In # <<>>) =>
     /\ Out # <<>>
     /\ MostPoints(Out[1].currency)
     /\ \A i \in 1..Len(In) :
          MostPoints(InCurrencies[i]) => \E j \in 1..i : InCurrencies[j] = Out[1].currency

\* C1 amended: for a non-empty input the currency of the returned rows has the
\* greatest number of points, and among currencies that tie for the greatest
\* number it is the first in sorted order of the currency codes.
C1_SortedFirst ==
  (Succeeded /\ In # <<>>) =>
     /\ Out # <<>>
     /\ MostPoints(Out[1].currency)
     /\ \A i \in 1..Len(In) :
          MostPoints(InCurrencies[i]) => RankOf(Out[1].currency) <= RankOf(InCurrencies[i])

\* a tie in which the currency met first is not the one chosen
C1_Witness ==
  /\ Succeeded /\ In # <<>> /\ Tie
  /\ MostPoints(InCurrencies[1])
  /\ Out[1].currency # InCurrencies[1]

\* C2: the returned rows all carry one currency, a currency with the most
\* points, and the summary (currency, count, high, low, avg) is that of the
\* input points in that currency alone: no point in another currency is
\* counted or enters a statistic.
RECURSIVE SumRows(_)
SumRows(S) ==
  IF S = {} THEN 0
  ELSE LET i == CHOOSE x \in S : TRUE IN RowOf(i).total_price + SumRows(S \ {i})

C2_SingleCurrency ==
  Succeeded =>
     /\ \A i, j \in 1..Len(Out) : Out[i].currency = Out[j].currency
     /\ (In # <<>>) =>
          /\ IsSome(ebay_summary)
          /\ LET s == ebay_summary[1]
                 P == Positions(s.currency)
             IN  /\ MostPoints(s.currency)
                 /\ Out # <<>> /\ Out[1].currency = s.currency
                 /\ s.count = Cardinality(P)
                 /\ \A i \in P : RowOf(i).total_price <= s.high /\ s.low <= RowOf(i).total_price
                 /\ \E i \in P : RowOf(i).total_price = s.high
                 /\ \E i \in P : RowOf(i).total_price = s.low
                 /\ s.avg.num = SumRows(P) /\ s.avg.den = Cardinality(P)

\* mixed currencies, and the point left out is dearer than every point kept
C2_Witness ==
  /\ Succeeded /\ IsSome(ebay_summary)
  /\ ebay_summary[1].count = 2 /\ Len(In) = 3
  /\ \E i \in 1..Len(In) :
       /\ InCurrencies[i] # ebay_summary[1].currency
       /\ RowOf(i).total_price > ebay_summary[1].high

\* ---------------------------------------------------------------- C3
\* the raw price the loop reads: "__value__", else "#text"
RawPrice(it) == IF IsSome(it.currentPrice.value) THEN it.currentPrice.value ELSE it.currentPrice.text

\* the price is missing or is not a number
BadPrice(it) == ~IsSome(RawPrice(it)) \/ ~FloatParses(RawPrice(it)[1])

\* endTime is missing or is not an ISO-8601 time
BadDate(it) == ~IsSome(it.endTime) \/ it.endTime[1] # GoodEndTime

Malformed(it) == BadPrice(it) \/ BadDate(it)

C4_NoData ==
  /\ ~raised
  /\ (Succeeded /\ Out = <<>>) =>
        /\ ebay_summary = None
        /\ badge_text = Badge("No sold data", "", 0)
  /\ (Succeeded /\ ebay_summary = None) => badge_text.text = "No sold data"
  /\ (pc = "details" /\ ebay_summary = None) => panel # "metrics"

\* the lookup succeeded with no rows and the details column was rendered
C4_Witness ==
  /\ pc = "details" /\ Succeeded /\ Out = <<>>
  /\ ebay_summary = None /\ badge_text.text = "No sold data" /\ panel = "info"

\* ---------------------------------------------------------------- C5
Totals == [i \in 1..Len(Out) |-> Out[i].total_price]

RECURSIVE SeqSum(_)
SeqSum(q) == IF q = <<>> THEN 0 ELSE q[Len(q)] + SeqSum(SubSeq(q, 1, Len(q) - 1))

\* the k-th smallest entry of q
KthSmallest(q, k) ==
  CHOOSE v \in {q[i] : i \in 1..Len(q)} :
    /\ Cardinality({i \in 1..Len(q) : q[i] < v}) < k
    /\ k <= Cardinality({i \in 1..Len(q) : q[i] <= v})

\* twice the median: the two middle entries added (the same entry for odd n)
TwiceMedian(q) == KthSmallest(q, (Len(q) + 1) \div 2) + KthSmallest(q, (Len(q) + 2) \div 2)

\* count, least, greatest and mean of the returned prices are in the summary
BasicStats(s) ==
  /\ s.count = Len(Totals)
  /\ \A i \in 1..Len(Totals) : s.low <= Totals[i] /\ Totals[i] <= s.high
  /\ \E i \in 1..Len(Totals) : s.low = Totals[i]
  /\ \E i \in 1..Len(Totals) : s.high = Totals[i]
  /\ s.avg.den # 0 /\ s.avg.num * Len(Totals) = SeqSum(Totals) * s.avg.den

InRows == [i \in 1..Len(In) |-> RowOf(i)]

\* C6: the returned list is no longer than the raw list and every returned
\* row comes from a raw item of its own: a row is returned no more often than
\* there are raw items that give it.
C6_NoFabrication ==
  Succeeded =>
     /\ Len(Out) <= Len(In)
     /\ \A j \in 1..Len(Out) : Count(Out, Out[j]) <= Count(InRows, Out[j])

\* every raw item is returned, once each
C6_Witness ==
  /\ Succeeded /\ Len(In) = MaxItems /\ Len(Out) = Len(In)
  /\ \E i, j \in 1..Len(Out) : Out[i] # Out[j]

\* ---------------------------------------------------------------- C7
\* C7: the returned rows are in input order: the k-th returned row is the row
\* of the k-th raw item that carries the returned currency.
C7_InputOrder ==
  (Succeeded /\ Out # <<>>) =>
     \A k \in 1..Len(Out) :
        /\ k <= Cardinality(Positions(Out[1].currency))
        /\ Out[k] = RowOf(KthPosition(Out[1].currency, k))

\* two rows are returned around a dropped one, the dearer first
C7_Witness ==
  /\ Succeeded /\ Len(In) = 3 /\ Len(Out) = 2
  /\ InCurrencies[2] # Out[1].currency
  /\ Out[1].price > Out[2].price
  /\ Out[1] = RowOf(1) /\ Out[2] = RowOf(3)

\* ---------------------------------------------------------------- C8
\* the raw amount is a negative number: a minus sign and digits, not all zero
RawNegative(obj) ==
  LET raw == IF IsSome(obj.value) THEN obj.value ELSE obj.text
  IN  /\ IsSome(raw)
      /\ Len(raw[1]) >= 2
      /\ raw[1][1] = "-"
      /\ \A i \in 2..Len(raw[1]) : raw[1][i] \in Digits
      /\ \E i \in 2..Len(raw[1]) : raw[1][i] # "0"

RawShipNegative(it) ==
  IsSome(it.shippingServiceCost) /\ RawNegative(it.shippingServiceCost[1])

\* C8 as stated: every returned row has a non-negative price and a
\* non-negative total_price, whatever the raw price and shipping cost are.
C8_NonNegative ==
  Succeeded => \A j \in 1..Len(Out) : Out[j].price >= 0 /\ Out[j].total_price >= 0

\* C8 amended: a returned row has a negative price exactly when its raw price
\* is a negative number, which is passed through unchanged, and a negative
\* total_price only when its raw price or its raw shipping cost is a negative
\* number; every other row has a non-negative price and total_price.
C8_NegativePassedThrough ==
  (Succeeded /\ Out # <<>>) =>
     \A k \in 1..Len(Out) :
        LET it == In[KthPosition(Out[1].currency, k)]
        IN  /\ (Out[k].price < 0) <=> RawNegative(it.currentPrice)
            /\ (Out[k].total_price < 0) => (RawNegative(it.currentPrice) \/ RawShipNegative(it))
            /\ (Out[k].shipping < 0) <=> RawShipNegative(it)

\* a row with a negative price is returned
C8_Witness ==
  /\ Succeeded /\ Out # <<>>
  /\ \E k \in 1..Len(Out) :
       /\ Out[k].price < 0 /\ Out[k].total_price < 0
       /\ RawNegative(In[KthPosition(Out[1].currency, k)].currentPrice)

\* --------------------------------------------------------------- C10
\* the lookup fails: no app id, an exception, no findCompletedItemsResponse,
\* or an ack other than "Success"
FailurePath ==
  \/ ~EBAY_APP_ID
  \/ response.exc
  \/ ~IsSome(response.resp)
  \/ response.resp[1].ack # Some("Success")

\* C10: every result of the lookup has one of two shapes: on a failure path
\* ok is False, error is not None and items is empty; otherwise ok is True
\* and error is None.
C10_ResultShape ==
  (pc # "loop" /\ IsSome(ebay)) =>
     /\ FailurePath => (~ebay[1].ok /\ IsSome(ebay[1].error) /\ ebay[1].items = <<>>)
     /\ ~FailurePath => (ebay[1].ok /\ ebay[1].error = None)
     /\ ~ebay[1].ok => ebay_error = ebay[1].error

\* a response with ack Failure that carried an item returned no items
C10_Witness ==
  /\ pc = "tile" /\ IsSome(ebay) /\ ~ebay[1].ok
  /\ IsSome(response.resp) /\ response.resp[1].ack = Some("Failure")
  /\ response.resp[1].item # <<>>
  /\ ebay[1].items = <<>> /\ badge_text.text = "Sold blocked"

\* --------------------------------------------------------------- C12
\* the raw shipping cost is missing or is not a number
BadShipping(it) ==
  \/ ~IsSome(it.shippingServiceCost)
  \/ LET obj == it.shippingServiceCost[1]
         raw == IF IsSome(obj.value) THEN obj.value ELSE obj.text
     IN  ~IsSome(raw) \/ ~FloatParses(raw[1])

\* C12: a returned row has total_price = price + shipping when
\* include_shipping is on and total_price = price when it is off; a missing
\* or non-numeric shipping cost counts as 0; price and shipping are read from
\* the raw item alone, so they are the same under both settings.
C12_TotalPrice ==
  (Succeeded /\ Out # <<>>) =>
     \A k \in 1..Len(Out) :
        LET it == In[KthPosition(Out[1].currency, k)]
        IN  /\ include_shipping => Out[k].total_price = Out[k].price + Out[k].shipping
            /\ ~include_shipping => Out[k].total_price = Out[k].price
            /\ BadShipping(it) => Out[k].shipping = 0
            /\ Out[k].price = ToFloat(it.currentPrice)
            /\ Out[k].shipping = ShipCost(it)

\* include_shipping is off: a row keeps its shipping of 3 outside total_price,
\* next to a row whose non-numeric shipping cost counts as 0
C12_Witness ==
  /\ Succeeded /\ ~include_shipping /\ Len(Out) = 2
  /\ Out[1].shipping = 3 /\ Out[1].price = 10 /\ Out[1].total_price = 10
  /\ IsSome(In[2].shippingServiceCost) /\ BadShipping(In[2])
  /\ Out[2].shipping = 0 /\ Out[2].total_price = Out[2].price

\* --------------------------------------------------------------- C11
\* the caption and the card grid have been rendered (line 449 onwards)
GridRendered == pc \in {"loop", "tile", "details"}

\* the source tag of the cards a provider's data gives
SourceTag(provider) == IF provider = "PokemonTCG" THEN "pokemontcg" ELSE "tcgdex"

\* the result whose data the cards of the grid were made from
ResultOf(provider) == IF provider = "PokemonTCG" THEN primary ELSE fallback

\* C11: the fallback provider is called only after the primary search
\* returned ok=False; whenever the grid is rendered normalized_cards is not
\* empty and provider_used names the provider whose data its cards come from;
\* and when the primary fails and the fallback fails or returns no data, the
\* run has stopped with no grid and no eBay lookup.
C11_SearchFlow ==
  /\ (\E i \in 1..Len(queried) : queried[i] = "TCGdex") =>
        /\ queried = <<"PokemonTCG", "TCGdex">>
        /\ IsSome(primary) /\ ~primary[1].ok
  /\ IsSome(fallback) => queried = <<"PokemonTCG", "TCGdex">>
  /\ GridRendered =>
        /\ normalized_cards # <<>>
        /\ IsSome(provider_used)
        /\ provider_used[1] = queried[Len(queried)]
        /\ IsSome(ResultOf(provider_used[1])) /\ ResultOf(provider_used[1])[1].ok
        /\ \A i \in 1..Len(normalized_cards) :
              /\ normalized_cards[i].source = SourceTag(provider_used[1])
              /\ \E j \in 1..Len(ResultOf(provider_used[1])[1].data) :
                    ResultOf(provider_used[1])[1].data[j].id = normalized_cards[i].id
  /\ (/\ IsSome(primary) /\ ~primary[1].ok
      /\ Len(queried) = 2
      /\ (~IsSome(fallback) \/ ~fallback[1].ok \/ fallback[1].data = <<>>)) =>
        /\ pc \in {"stopped", "crashed"}
        /\ ebay = None /\ response = NoResponse
        /\ badge_text = NoBadge /\ panel = ""

\* the primary failed and the grid shows TCGdex cards, one brief having no
\* full card, with an eBay lookup made for a card
C11_Witness ==
  /\ pc = "tile" /\ IsSome(ebay)
  /\ queried = <<"PokemonTCG", "TCGdex">>
  /\ IsSome(primary) /\ ~primary[1].ok
  /\ provider_used = Some("TCGdex")
  /\ IsSome(fallback) /\ Len(fallback[1].data) = 2
  /\ Len(normalized_cards) = 1 /\ normalized_cards[1].source = "tcgdex"

====
